---- MODULE Spec2Model ----
(***************************************************************************)
(* Label-skewed partitioning of a dataset over federated clients:         *)
(* experiments/heterogeneous_class_dist/dataset.py.                        *)
(*                                                                         *)
(* A sample collection is modelled by its label array (a sequence of class *)
(* ids); sample indices are the 0-based positions of Python, so index j is *)
(* the sample whose label is labels[j + 1].  A proportion is the exact     *)
(* rational w / W, kept as the pair <<w, W>>: the unnormalised draw w and  *)
(* the sum W of the draws of its class.  (Floating-point rounding of the   *)
(* division and of the product is not modelled.)                           *)
(***************************************************************************)
EXTENDS Integers, Sequences, FiniteSets, TLC

VARIABLES
    num_users,        \* argument of gen_random_loaders
    classes_per_user, \* argument of gen_random_loaders
    d,                \* the collection the loop of gen_random_loaders is at (its label array)
    pc,               \* position in gen_random_loaders and its callees
    err,              \* the exception that aborted the run, or "none"
    shuffle,          \* loader_params['shuffle']
    class_dict,       \* gen_classes_per_node: class -> [count, prob]
    usr,              \* gen_classes_per_node: the client being served (0-based)
    c,                \* gen_classes_per_node: the classes picked for that client
    class_partitions, \* the Class Partition Plan: [class, prob]
    cls_partitions,   \* gen_random_loaders: the plan it holds
    num_samples,      \* gen_data_split: per-class counts of the split
    data_class_idx,   \* gen_data_split: class -> pool of remaining indices
    user_data_idx,    \* gen_data_split: client -> indices assigned
    usr_i,            \* gen_data_split: the client being served (0-based)
    slot,             \* gen_data_split: position in the client's plan entry
    dataloaders,      \* gen_random_loaders: one loader list per finished split
    result,           \* what gen_random_loaders returned, or "none"
    probs_generated,  \* history: class -> the proportions generated for it
    gen_calls,        \* history: number of calls of gen_classes_per_node
    plan_seen,        \* history: the plan each call of gen_data_split received
    last_slice        \* history: the last slice taken by gen_data_split

vars == <<num_users, classes_per_user, d, pc, err, shuffle,
          class_dict, usr, c, class_partitions, cls_partitions, num_samples,
          data_class_idx, user_data_idx, usr_i, slot, dataloaders, result,
          probs_generated, gen_calls, plan_seen, last_slice>>

(***************************************************************************)
(* Bounds of the model and constants of the program.                       *)
(***************************************************************************)
MaxPairs == 4
MaxLabel == 1
MaxSamples == 2
MaxAnyPairs == 2

\* low_prob = 0.4 and high_prob = 0.6, in tenths
LowProb == 4
HighProb == 6
\* train, val, test
NumSplits == 3

(***************************************************************************)
(* Helpers.                                                                *)
(***************************************************************************)
Range(s) == {s[j] : j \in DOMAIN s}

Min(a, b) == IF a <= b THEN a ELSE b

Max(a, b) == IF a >= b THEN a ELSE b

RECURSIVE SumSeq(_)
SumSeq(s) == IF s = <<>> THEN 0 ELSE Head(s) + SumSeq(Tail(s))

Occurrences(s, x) == Cardinality({j \in DOMAIN s : s[j] = x})

Collections ==
    UNION {[1..n -> 0..MaxLabel] : n \in 1..MaxSamples}

(***************************************************************************)
(* get_num_classes_samples: np.unique(labels, return_counts=True).  The   *)
(* k-th count belongs to the k-th smallest label that occurs, which is     *)
(* label k only when the labels that occur are 0..num_classes-1.           *)
(***************************************************************************)
KthClass(labels, k) ==
    CHOOSE v \in Range(labels) : Cardinality({u \in Range(labels) : u < v}) = k

get_num_classes_samples(labels) ==
    [num_classes |-> Cardinality(Range(labels)),
     num_samples |-> [k \in 0..(Cardinality(Range(labels)) - 1) |->
                         Occurrences(labels, KthClass(labels, k))],
     data_labels_list |-> labels]

(***************************************************************************)
(* gen_classes_per_node.                                                   *)
(***************************************************************************)
\* a variant that lets every input pass
DivisibilityUnchecked(cpu, users, num_classes) == TRUE

\* the assert of line 125
DivisibilityOk(cpu, users, num_classes) == (cpu * users) % num_classes = 0

CountPerClass(cpu, users, num_classes) == (cpu * users) \div num_classes

\* what np.random.uniform(low_prob, high_prob) may draw, in tenths: the two
\* ends of the interval
Weights == {LowProb, HighProb}

\* a variant that leaves the draws as they are (tenths)
Unnormalized(probs) == [j \in DOMAIN probs |-> <<probs[j], 10>>]

\* probs / probs.sum()
Normalize(probs) == [j \in DOMAIN probs |-> <<probs[j], SumSeq(probs)>>]

\* the class_dict of lines 127-133, for every outcome of the draws
ClassDicts(num_classes, count_per_class) ==
    {[k \in 0..(num_classes - 1) |->
         [count |-> count_per_class, prob |-> Normalize(w[k])]] :
       w \in [0..(num_classes - 1) -> [1..count_per_class -> Weights]]}

MaxCount(cd) == CHOOSE m \in {cd[k].count : k \in DOMAIN cd} :
                    \A k \in DOMAIN cd : cd[k].count <= m

\* a variant that takes every class with budget left
MaxClassCountsAnyLeft(cd) == {k \in DOMAIN cd : cd[k].count > 0}

\* np.where(np.array(class_counts) == max(class_counts))[0]
MaxClassCounts(cd) == {k \in DOMAIN cd : cd[k].count = MaxCount(cd)}

\* a variant that does not avoid the classes already picked
CandidatesWithRepeats(cd, picked) == MaxClassCounts(cd)

\* list(set(max_class_counts) - set(c))
Candidates(cd, picked) == MaxClassCounts(cd) \ Range(picked)

\* a variant that leaves the budget as it is
DecrementNone(cd, k) == cd

\* class_dict[c[-1]]['count'] -= 1
Decrement(cd, k) == [cd EXCEPT ![k].count = @ - 1]

\* a variant that reads the last element and leaves it in the list
PopKeeps(probs) == probs

\* list.pop(): the last element is removed and returned
PopRest(probs) == SubSeq(probs, 1, Len(probs) - 1)

PopValue(probs) == probs[Len(probs)]

\* [class_dict[i]['prob'].pop() for i in c], from left to right;
\* ok is FALSE when a pop met an empty list (IndexError)
RECURSIVE PopAll(_, _)
PopAll(cd, picked) ==
    IF picked = <<>> THEN [cd |-> cd, out |-> <<>>, ok |-> TRUE]
    ELSE IF cd[Head(picked)].prob = <<>> THEN [cd |-> cd, out |-> <<>>, ok |-> FALSE]
    ELSE LET k == Head(picked)
             r == PopAll([cd EXCEPT ![k].prob = PopRest(@)], Tail(picked))
         IN  [cd |-> r.cd, out |-> <<PopValue(cd[k].prob)>> \o r.out, ok |-> r.ok]

EmptyPlan == [class |-> <<>>, prob |-> <<>>]

(***************************************************************************)
(* gen_data_split.                                                         *)
(***************************************************************************)
RECURSIVE Where(_, _, _)
\* np.where(data_labels_list == k)[0]: the 0-based positions, ascending
Where(labels, k, from) ==
    IF from > Len(labels) THEN <<>>
    ELSE (IF labels[from] = k THEN <<from - 1>> ELSE <<>>) \o Where(labels, k, from + 1)

\* a variant that takes the positions of every label
DataClassIdxAll(labels, k) == [j \in 1..Len(labels) |-> j - 1]

DataClassIdx(labels, k) == Where(labels, k, 1)

\* random.shuffle: any permutation of the pool
Shuffles(pool) ==
    {[j \in 1..Len(pool) |-> pool[f[j]]] : f \in Permutations(1..Len(pool))}

\* a variant that takes the proportion of what remains in the pool
EndIdxOfRemaining(samples, remaining, p) == (remaining * p[1]) \div p[2]

\* int(x) of the rational x = a / b, b > 0: rounded towards zero
TruncDiv(a, b) == IF a >= 0 THEN a \div b ELSE -((-a) \div b)

\* int(num_samples[c] * p), p = w / W
EndIdx(samples, remaining, p) == TruncDiv(samples * p[1], p[2])

\* the bound of a Python slice: clamped to the array
Clamp(e, len) == IF e < 0 THEN Max(len + e, 0) ELSE Min(e, len)

\* data_class_idx[c][:end_idx]
Prefix(pool, e) == SubSeq(pool, 1, Clamp(e, Len(pool)))

\* a variant that leaves the assigned prefix in the pool
RestKeepsAll(pool, e) == pool

\* data_class_idx[c][end_idx:]
Rest(pool, e) == SubSeq(pool, Clamp(e, Len(pool)) + 1, Len(pool))

(***************************************************************************)
(* gen_random_loaders.                                                     *)
(***************************************************************************)
\* a variant that generates a plan for every split
NeedsPlanAlways(i) == TRUE

\* if i == 0
NeedsPlan(i) == i = 0

\* torch.utils.data.DataLoader(torch.utils.data.Subset(d, x), **loader_params):
\* the loader is an object of the framework, known here by the length of its
\* subset and by its shuffle flag
DataLoader(x, shuf) == [size |-> Len(x), shuffle |-> shuf]

Init ==
    /\ num_users \in 1..MaxPairs
    /\ classes_per_user \in 1..MaxPairs
    /\ num_users * classes_per_user <= MaxPairs
    /\ d = <<>>
    /\ pc = "loop"
    /\ err = "none"
    /\ shuffle = FALSE
    /\ class_dict = <<>>
    /\ usr = 0
    /\ c = <<>>
    /\ class_partitions = EmptyPlan
    /\ cls_partitions = <<>>
    /\ num_samples = <<>>
    /\ data_class_idx = <<>>
    /\ user_data_idx = <<>>
    /\ usr_i = 0
    /\ slot = 1
    /\ dataloaders = <<>>
    /\ result = <<>>
    /\ probs_generated = <<>>
    /\ gen_calls = 0
    /\ plan_seen = <<>>
    /\ last_slice = <<>>

\* for i, d in enumerate(datasets): the next collection, of any content (the
\* collections get_datasets loaded are first read when the loop reaches them)
NextDataset ==
    /\ pc = "loop"
    /\ Len(dataloaders) < NumSplits
    /\ d' \in Collections
    /\ pc' = IF NeedsPlan(Len(dataloaders)) THEN "gen" ELSE "split"
    /\ UNCHANGED <<num_users, classes_per_user, err, shuffle, class_dict, usr, c,
                   class_partitions, cls_partitions, num_samples, data_class_idx,
                   user_data_idx, usr_i, slot, dataloaders, result,
                   probs_generated, gen_calls, plan_seen, last_slice>>

\* return dataloaders
Return ==
    /\ pc = "loop"
    /\ Len(dataloaders) = NumSplits
    /\ result' = <<dataloaders>>
    /\ pc' = "done"
    /\ UNCHANGED <<num_users, classes_per_user, d, err, shuffle, class_dict, usr, c,
                   class_partitions, cls_partitions, num_samples, data_class_idx,
                   user_data_idx, usr_i, slot, dataloaders,
                   probs_generated, gen_calls, plan_seen, last_slice>>

\* gen_classes_per_node, line 125: the assert fails
GenAssertFail ==
    /\ pc = "gen"
    /\ ~DivisibilityOk(classes_per_user, num_users, get_num_classes_samples(d).num_classes)
    /\ pc' = "failed"
    /\ err' = "AssertionError"
    /\ gen_calls' = gen_calls + 1
    /\ UNCHANGED <<num_users, classes_per_user, d, shuffle, class_dict, usr, c,
                   class_partitions, cls_partitions, num_samples, data_class_idx,
                   user_data_idx, usr_i, slot, dataloaders, result,
                   probs_generated, plan_seen, last_slice>>

\* gen_classes_per_node, lines 120-138
GenStart ==
    /\ pc = "gen"
    /\ LET nc == get_num_classes_samples(d).num_classes IN
        /\ DivisibilityOk(classes_per_user, num_users, nc)
        /\ class_dict' \in ClassDicts(nc, CountPerClass(classes_per_user, num_users, nc))
    /\ probs_generated' = [k \in DOMAIN class_dict' |-> class_dict'[k].prob]
    /\ class_partitions' = EmptyPlan
    /\ usr' = 0
    /\ c' = <<>>
    /\ gen_calls' = gen_calls + 1
    /\ pc' = "pick"
    /\ UNCHANGED <<num_users, classes_per_user, d, err, shuffle, cls_partitions,
                   num_samples, data_class_idx, user_data_idx, usr_i, slot,
                   dataloaders, result, plan_seen, last_slice>>

\* lines 142-147: one pass of the inner loop
PickClass ==
    /\ pc = "pick"
    /\ usr < num_users
    /\ Len(c) < classes_per_user
    /\ \E k \in Candidates(class_dict, c) :
        /\ c' = Append(c, k)
        /\ class_dict' = Decrement(class_dict, k)
    /\ UNCHANGED <<num_users, classes_per_user, d, pc, err, shuffle, usr,
                   class_partitions, cls_partitions, num_samples, data_class_idx,
                   user_data_idx, usr_i, slot, dataloaders, result,
                   probs_generated, gen_calls, plan_seen, last_slice>>

\* line 146: np.random.choice of an empty list raises ValueError
PickFail ==
    /\ pc = "pick"
    /\ usr < num_users
    /\ Len(c) < classes_per_user
    /\ Candidates(class_dict, c) = {}
    /\ pc' = "failed"
    /\ err' = "ValueError"
    /\ UNCHANGED <<num_users, classes_per_user, d, shuffle, class_dict, usr, c,
                   class_partitions, cls_partitions, num_samples, data_class_idx,
                   user_data_idx, usr_i, slot, dataloaders, result,
                   probs_generated, gen_calls, plan_seen, last_slice>>

\* lines 148-149: the client's entry is appended to the plan
EndClient ==
    /\ pc = "pick"
    /\ usr < num_users
    /\ Len(c) = classes_per_user
    /\ LET r == PopAll(class_dict, c) IN
        IF r.ok
        THEN /\ class_dict' = r.cd
             /\ class_partitions' =
                    [class |-> Append(class_partitions.class, c),
                     prob  |-> Append(class_partitions.prob, r.out)]
             /\ usr' = usr + 1
             /\ c' = <<>>
             /\ UNCHANGED <<pc, err>>
        ELSE /\ pc' = "failed"
             /\ err' = "IndexError: pop from empty list"
             /\ class_dict' = r.cd
             /\ UNCHANGED <<class_partitions, usr, c>>
    /\ UNCHANGED <<num_users, classes_per_user, d, shuffle, cls_partitions,
                   num_samples, data_class_idx, user_data_idx, usr_i, slot,
                   dataloaders, result, probs_generated, gen_calls, plan_seen,
                   last_slice>>

\* line 150, and lines 204-205 of the caller
GenReturn ==
    /\ pc = "pick"
    /\ usr = num_users
    /\ cls_partitions' = <<class_partitions>>
    /\ shuffle' = TRUE
    /\ pc' = "split"
    /\ UNCHANGED <<num_users, classes_per_user, d, err, class_dict, usr, c,
                   class_partitions, num_samples, data_class_idx, user_data_idx,
                   usr_i, slot, dataloaders, result, probs_generated, gen_calls,
                   plan_seen, last_slice>>

\* gen_data_split, lines 161-177: the pools are built and shuffled
SplitStart ==
    /\ pc = "split"
    /\ LET info == get_num_classes_samples(d) IN
        /\ num_samples' = info.num_samples
        /\ data_class_idx' \in
             {f \in [0..(info.num_classes - 1) ->
                       UNION {Shuffles(DataClassIdx(d, k)) : k \in 0..(info.num_classes - 1)}] :
                \A k \in 0..(info.num_classes - 1) : f[k] \in Shuffles(DataClassIdx(d, k))}
    /\ user_data_idx' = [u \in 0..(num_users - 1) |-> <<>>]
    /\ usr_i' = 0
    /\ slot' = 1
    /\ plan_seen' = Append(plan_seen, cls_partitions[1])
    /\ last_slice' = <<>>
    /\ pc' = "assign"
    /\ UNCHANGED <<num_users, classes_per_user, d, err, shuffle, class_dict, usr, c,
                   class_partitions, cls_partitions, dataloaders, result,
                   probs_generated, gen_calls>>

\* the class and the proportion of zip(...) at the position the loops are at
SlotClass == cls_partitions[1].class[usr_i + 1][slot]

SlotProb == cls_partitions[1].prob[usr_i + 1][slot]

\* lines 180-182: one pass of the inner loop
AssignSlice ==
    /\ pc = "assign"
    /\ usr_i < num_users
    /\ SlotClass \in DOMAIN num_samples
    /\ LET k == SlotClass
           end_idx == EndIdx(num_samples[k], Len(data_class_idx[k]), SlotProb)
       IN
        /\ user_data_idx' =
             [user_data_idx EXCEPT ![usr_i] = @ \o Prefix(data_class_idx[k], end_idx)]
        /\ data_class_idx' =
             [data_class_idx EXCEPT ![k] = Rest(@, end_idx)]
        /\ last_slice' = <<[usr |-> usr_i, class |-> k, prob |-> SlotProb,
                            remaining |-> Len(data_class_idx[k]),
                            got |-> Len(Prefix(data_class_idx[k], end_idx))]>>
    /\ IF slot < Len(cls_partitions[1].class[usr_i + 1])
       THEN slot' = slot + 1 /\ usr_i' = usr_i
       ELSE slot' = 1 /\ usr_i' = usr_i + 1
    /\ UNCHANGED <<num_users, classes_per_user, d, pc, err, shuffle, class_dict, usr,
                   c, class_partitions, cls_partitions, num_samples, dataloaders,
                   result, probs_generated, gen_calls, plan_seen>>

\* line 180: num_samples[c] of a class the split does not have raises IndexError
AssignFail ==
    /\ pc = "assign"
    /\ usr_i < num_users
    /\ SlotClass \notin DOMAIN num_samples
    /\ pc' = "failed"
    /\ err' = "IndexError: index out of bounds"
    /\ UNCHANGED <<num_users, classes_per_user, d, shuffle, class_dict, usr, c,
                   class_partitions, cls_partitions, num_samples, data_class_idx,
                   user_data_idx, usr_i, slot, dataloaders, result,
                   probs_generated, gen_calls, plan_seen, last_slice>>

\* line 184, and lines 208-212 of the caller; the locals of gen_data_split end
SplitReturn ==
    /\ pc = "assign"
    /\ usr_i = num_users
    /\ dataloaders' =
         Append(dataloaders,
                [u \in 1..num_users |-> DataLoader(user_data_idx[u - 1], shuffle)])
    /\ shuffle' = FALSE
    /\ num_samples' = <<>>
    /\ data_class_idx' = <<>>
    /\ user_data_idx' = <<>>
    /\ usr_i' = 0
    /\ slot' = 1
    /\ last_slice' = <<>>
    /\ pc' = "loop"
    /\ UNCHANGED <<num_users, classes_per_user, d, err, class_dict, usr, c,
                   class_partitions, cls_partitions, result, probs_generated,
                   gen_calls, plan_seen>>

(***************************************************************************)
(* gen_data_split called on its own, with any plan: entries of any class   *)
(* ids, repeated or not, and proportions below 0, within (0, 1] and above  *)
(* 1.                                                                      *)
(***************************************************************************)
AnyProbs == {<<-1, 2>>, <<1, 2>>, <<3, 2>>}

AnyPlans(users, len) ==
    {[class |-> cl, prob |-> pr] :
        cl \in [1..users -> [1..len -> 0..MaxLabel]],
        pr \in [1..users -> [1..len -> AnyProbs]]}

InitSplit ==
    /\ num_users \in 1..MaxAnyPairs
    /\ classes_per_user \in 1..MaxAnyPairs
    /\ num_users * classes_per_user <= MaxAnyPairs
    /\ d \in Collections
    /\ \E plan \in AnyPlans(num_users, classes_per_user) : cls_partitions = <<plan>>
    /\ pc = "split"
    /\ err = "none"
    /\ shuffle = FALSE
    /\ class_dict = <<>>
    /\ usr = 0
    /\ c = <<>>
    /\ class_partitions = EmptyPlan
    /\ num_samples = <<>>
    /\ data_class_idx = <<>>
    /\ user_data_idx = <<>>
    /\ usr_i = 0
    /\ slot = 1
    /\ dataloaders = <<>>
    /\ result = <<>>
    /\ probs_generated = <<>>
    /\ gen_calls = 0
    /\ plan_seen = <<>>
    /\ last_slice = <<>>

NextSplit ==
    \/ SplitStart
    \/ AssignSlice
    \/ AssignFail
    \/ SplitReturn

SpecSplit == InitSplit /\ [][NextSplit]_vars

Next ==
    \/ NextDataset
    \/ Return
    \/ GenAssertFail
    \/ GenStart
    \/ PickClass
    \/ PickFail
    \/ EndClient
    \/ GenReturn
    \/ SplitStart
    \/ AssignSlice
    \/ AssignFail
    \/ SplitReturn

Spec == Init /\ [][Next]_vars

(***************************************************************************)
(* Vocabulary of the properties.                                           *)
(***************************************************************************)
\* the number of classes gen_classes_per_node worked with
PlanNumClasses == Cardinality(DOMAIN class_dict)

\* gen_classes_per_node has served every client
GenEnded == pc = "pick" /\ usr = num_users

\* gen_random_loaders holds a plan
PlanReturned == cls_partitions # <<>>

Zip(a, b) == [j \in 1..Min(Len(a), Len(b)) |-> <<a[j], b[j]>>]

RECURSIVE FlatPairs(_, _)
\* the (class, proportion) pairs of a plan, client after client
FlatPairs(classes, probs) ==
    IF classes = <<>> \/ probs = <<>> THEN <<>>
    ELSE Zip(Head(classes), Head(probs)) \o FlatPairs(Tail(classes), Tail(probs))

IsClass(k, pair) == pair[1] = k

\* the proportions the plan hands out for class k, in the order of the clients
Handed(plan, k) ==
    LET pairs == FlatPairs(plan.class, plan.prob)
        mine == SelectSeq(pairs, LAMBDA x : IsClass(k, x))
    IN  [j \in 1..Len(mine) |-> mine[j][2]]

Reverse(s) == [j \in 1..Len(s) |-> s[Len(s) + 1 - j]]

\* C1: when generation ends, and in the plan returned, every class has no
\* budget left and occurs in exactly (classes_per_user * num_users) /
\* num_classes (client, slot) pairs.
C1_EveryClassAssignedCountPerClass ==
    (GenEnded \/ PlanReturned) =>
        \A k \in DOMAIN class_dict :
            /\ class_dict[k].count = 0
            /\ Len(Handed(class_partitions, k)) * PlanNumClasses
                   = classes_per_user * num_users
            /\ PlanReturned =>
                   Len(Handed(cls_partitions[1], k)) * PlanNumClasses
                       = classes_per_user * num_users

\* a plan was returned in which two classes each serve two clients
C1_Witness ==
    /\ PlanReturned
    /\ PlanNumClasses = 2
    /\ num_users = 2
    /\ classes_per_user = 2
    /\ \A k \in DOMAIN class_dict : Len(Handed(cls_partitions[1], k)) = 2

\* C2: every entry of the plan lists exactly classes_per_user class ids, no
\* id twice, and the plan returned has one entry per client.
C2_EntriesDistinct ==
    /\ \A u \in DOMAIN class_partitions.class :
           /\ Len(class_partitions.class[u]) = classes_per_user
           /\ Cardinality(Range(class_partitions.class[u])) = classes_per_user
    /\ PlanReturned =>
           /\ Len(cls_partitions[1].class) = num_users
           /\ \A u \in DOMAIN cls_partitions[1].class :
                  /\ Len(cls_partitions[1].class[u]) = classes_per_user
                  /\ Cardinality(Range(cls_partitions[1].class[u])) = classes_per_user

\* a plan was returned whose entries hold two classes each
C2_Witness ==
    /\ PlanReturned
    /\ classes_per_user = 2
    /\ num_users = 2
    /\ PlanNumClasses = 2

\* the training collection is loaded and violates the divisibility precondition
BadInput ==
    /\ d # <<>>
    /\ dataloaders = <<>>
    /\ (classes_per_user * num_users) % Cardinality(Range(d)) # 0

\* C5: when the precondition fails, gen_classes_per_node fails at its assert
\* with nothing assigned and no plan, and gen_random_loaders returns nothing.
C5_PreconditionFailureAborts ==
    /\ BadInput =>
           /\ pc \in {"gen", "failed"}
           /\ pc = "failed" => err = "AssertionError"
           /\ class_dict = <<>>
           /\ c = <<>>
           /\ class_partitions = EmptyPlan
           /\ cls_partitions = <<>>
    /\ pc = "failed" => result = <<>>
    /\ err = "AssertionError" => BadInput /\ pc = "failed"

\* the assert has failed
C5_Witness == BadInput /\ pc = "failed" /\ err = "AssertionError"

\* C8: each class starts with count_per_class proportions; the proportions
\* still in its list followed by the ones handed out for it, latest first,
\* are the generated list (each is handed out once, to the class it was
\* generated for); no pop meets an empty list; every list ends empty.
C8_ProportionsHandedOutOnce ==
    /\ err # "IndexError: pop from empty list"
    /\ \A k \in DOMAIN class_dict :
           /\ Len(probs_generated[k]) * PlanNumClasses = classes_per_user * num_users
           /\ probs_generated[k]
                  = class_dict[k].prob \o Reverse(Handed(class_partitions, k))
           /\ (GenEnded \/ PlanReturned) => class_dict[k].prob = <<>>
    /\ \A u \in DOMAIN class_partitions.class :
           Len(class_partitions.prob[u]) = Len(class_partitions.class[u])

\* generation ended after a class handed out two different proportions
C8_Witness ==
    /\ GenEnded
    /\ \E k \in DOMAIN class_dict :
           /\ Len(probs_generated[k]) = 2
           /\ probs_generated[k][1] # probs_generated[k][2]
           /\ Handed(class_partitions, k) = Reverse(probs_generated[k])

\* the precondition of C9: divisibility, and no more classes per client than
\* there are classes
C9_Pre ==
    /\ class_dict # <<>>
    /\ (classes_per_user * num_users) % PlanNumClasses = 0
    /\ classes_per_user <= PlanNumClasses

Places == {<<u, j>> \in (DOMAIN user_data_idx) \X (1..MaxSamples + 1) :
               j \in DOMAIN user_data_idx[u]}

\* gen_data_split has served every client and is about to return
SplitEnded == pc = "assign" /\ usr_i = num_users

\* C3: in the lists gen_data_split builds and returns, no index occurs in two
\* places, be it in the lists of two clients or twice in one list.
C3_IndexSetsDisjoint ==
    pc = "assign" =>
        \A x, y \in Places :
            x # y => user_data_idx[x[1]][x[2]] # user_data_idx[y[1]][y[2]]

\* a split ends in which two clients hold indices of the same class
C3_Witness ==
    /\ SplitEnded
    /\ \E x, y \in Places :
           /\ x[1] # y[1]
           /\ d[user_data_idx[x[1]][x[2]] + 1] = d[user_data_idx[y[1]][y[2]] + 1]

\* C4: in every split, an index assigned to a client is the index of a sample
\* whose label is one of the classes of that client's plan entry.
C4_ClassFootprint ==
    pc = "assign" =>
        \A x \in Places :
            d[user_data_idx[x[1]][x[2]] + 1]
                \in Range(cls_partitions[1].class[x[1] + 1])

\* the test split ends with samples assigned, after the train and validation
\* splits assigned samples too
C4_Witness ==
    /\ SplitEnded
    /\ Len(dataloaders) = 2
    /\ Places # {}
    /\ \A s \in DOMAIN dataloaders : \E u \in DOMAIN dataloaders[s] :
           dataloaders[s][u].size > 0
    /\ \E k \in Range(d) : \E u \in DOMAIN cls_partitions[1].class :
           k \notin Range(cls_partitions[1].class[u])

\* floor(n * p) for the proportion p = <<w, W>>
FloorOf(n, p) == (n * p[1]) \div p[2]

\* C6 as stated: a slice has floor(r * p) indices, r the size of the class's
\* pool when the slice is taken.
C6_SliceOfRemainingPool ==
    last_slice # <<>> =>
        last_slice[1].got = FloorOf(last_slice[1].remaining, last_slice[1].prob)

\* C6 amended: a slice has floor(n * p) indices, n the count of the class in
\* the whole split (num_samples[c]), or the whole pool when that is smaller;
\* when the labels of the split are 0..num_classes-1, n is the number of
\* samples of class c in the split.
C6_SliceOfClassSize ==
    (pc = "assign" /\ last_slice # <<>>) =>
        LET s == last_slice[1] IN
        /\ s.got = Min(s.remaining, FloorOf(num_samples[s.class], s.prob))
        /\ Range(d) = DOMAIN num_samples =>
               num_samples[s.class] = Occurrences(d, s.class)

\* a later client draws from a pool that an earlier one has shrunk, and gets
\* more than the floor of its share of what remains
C6_Witness ==
    /\ pc = "assign"
    /\ last_slice # <<>>
    /\ last_slice[1].remaining < num_samples[last_slice[1].class]
    /\ last_slice[1].got > FloorOf(last_slice[1].remaining, last_slice[1].prob)
    /\ last_slice[1].got = FloorOf(num_samples[last_slice[1].class], last_slice[1].prob)

\* C7: gen_classes_per_node is called once, on the training collection, and
\* every call of gen_data_split receives the plan that call returned, which
\* the splits leave as it was.
C7_OnePlanForAllSplits ==
    /\ gen_calls <= 1
    /\ pc \in {"gen", "pick"} => dataloaders = <<>> /\ plan_seen = <<>>
    /\ plan_seen # <<>> => PlanReturned
    /\ PlanReturned => cls_partitions[1] = class_partitions
    /\ \A s \in DOMAIN plan_seen : plan_seen[s] = cls_partitions[1]
    /\ pc \in {"assign", "split"} => gen_calls = 1
    /\ pc = "done" => Len(plan_seen) = NumSplits

\* the three splits are done
C7_Witness ==
    /\ pc = "done"
    /\ Len(plan_seen) = NumSplits
    /\ gen_calls = 1
    /\ classes_per_user = 2

\* the class ids of the plan gen_random_loaders holds
PlanClasses ==
    UNION {Range(cls_partitions[1].class[u]) : u \in DOMAIN cls_partitions[1].class}

RECURSIVE SumSeqBy(_, _)
SumSeqBy(s, n) == IF s = <<>> THEN 0 ELSE FloorOf(n, Head(s)) + SumSeqBy(Tail(s), n)

\* the slice sizes the plan asks of class k in a split that has n samples of it
Requested(k, n) == SumSeqBy(Handed(cls_partitions[1], k), n)

\* C10: in a split in which every class of the plan occurs, the plan asks of
\* each class no more than the split has of it, every slice has the size
\* asked for, and what is left of a class in the end is less than
\* count_per_class.
C10_NoPoolExhausted ==
    (pc = "assign" /\ PlanClasses \subseteq Range(d)) =>
        \A k \in PlanClasses :
            /\ Requested(k, Occurrences(d, k)) <= Occurrences(d, k)
            /\ (last_slice # <<>> /\ last_slice[1].class = k) =>
                   /\ last_slice[1].got = FloorOf(Occurrences(d, k), last_slice[1].prob)
                   /\ last_slice[1].got <= last_slice[1].remaining
            /\ SplitEnded =>
                   /\ Len(data_class_idx[k])
                          = Occurrences(d, k) - Requested(k, Occurrences(d, k))
                   /\ Len(data_class_idx[k]) * PlanNumClasses
                          < classes_per_user * num_users

\* a split ends with a class shared by two clients of which one sample is left
C10_Witness ==
    /\ SplitEnded
    /\ PlanClasses \subseteq Range(d)
    /\ \E k \in PlanClasses :
           /\ Len(Handed(cls_partitions[1], k)) >= 2
           /\ Len(data_class_idx[k]) = 1
           /\ Requested(k, Occurrences(d, k)) >= 1

====
